---- MODULE Spec2Model ----
(***************************************************************************)
(* A model of midly's SMF packaging layer (src/src/smf.rs): chunk framing, *)
(* header decoding, the per-track event iterators, the sequential and the  *)
(* parallel track collection, the structural validation and the writer.    *)
(*                                                                         *)
(* Byte slices (&[u8]) are sequences of integers 0..255.  A slice cursor   *)
(* (&mut &[u8]) is the sequence of the bytes still unread.  The cargo      *)
(* features "strict" and "parallel" are the build's two switches; they are *)
(* the state variables strict and parallel, fixed by Init.                 *)
(***************************************************************************)
EXTENDS Integers, Sequences, FiniteSets, TLC

VARIABLES
    strict,           \* cfg!(feature = "strict")
    parallel,         \* cfg(feature = "parallel")
    raw,              \* the bytes handed to the operation under test
    pc,               \* position of the running operation
    chunks,           \* ChunkIter.raw: the bytes the framer has not read yet
    track_count_hint, \* TrackIter.track_count_hint
    header,           \* what parse returned: Ok([header, track_count]) or Err
    chunk_vec,        \* generic_collect's chunk_vec: the captured EventIters, in order
    workers,          \* the parallel path's tasks, one per element of chunk_vec
    tracks,           \* the tracks collected so far (Spec: what collect returned; SpecWrite: the tracks left to write)
    result,           \* the operation's return value, None while it runs
    smf,              \* the container handed to write, its tracks as runs of equal tracks
    out,              \* the writer's sink
    iter,             \* the EventIter under test: [raw, running_status]
    yielded,          \* the items the iterator under test has returned, in order
    pieces,           \* bookkeeping: the parts the input bytes were assembled from
    track_chunk       \* write's reusable buffer for one track chunk

vars == <<strict, parallel, raw, pc, chunks, track_count_hint, header, chunk_vec,
          workers, tracks, result, smf, out, iter, yielded, pieces, track_chunk>>

(***************************************************************************)
(* Option and Result                                                       *)
(***************************************************************************)
None == [some |-> FALSE, v |-> 0]
Some(x) == [some |-> TRUE, v |-> x]

Ok(x) == [ok |-> TRUE, val |-> x, err |-> "none"]
Err(kind) == [ok |-> FALSE, val |-> 0, err |-> kind]

\* Result::context: the error is wrapped, its kind becomes the context's kind.
Context(r, kind) == IF r.ok THEN r ELSE Err(kind)

(***************************************************************************)
(* Primitives of the crate that smf.rs calls                               *)
(***************************************************************************)
Drop(s, n) == SubSeq(s, n + 1, Len(s))
Take(s, n) == SubSeq(s, 1, n)

\* <&[u8]>::split_checked: None and the cursor untouched when too few bytes remain.
SplitChecked(s, n) ==
    IF n > Len(s) THEN [some |-> FALSE, v |-> <<>>, raw |-> s]
    ELSE [some |-> TRUE, v |-> Take(s, n), raw |-> Drop(s, n)]

U16Read(s) ==
    IF Len(s) < 2 THEN [ok |-> FALSE, val |-> 0, raw |-> s]
    ELSE [ok |-> TRUE, val |-> s[1] * 256 + s[2], raw |-> Drop(s, 2)]

\* u32::read, big-endian. A value of 2^31 or more stands as 2^31 - 1: the model
\* only compares it with slice lengths, all far below.
U32Read(s) ==
    IF Len(s) < 4 THEN [ok |-> FALSE, val |-> 0, raw |-> s]
    ELSE [ok |-> TRUE,
          val |-> IF s[1] >= 128 THEN 2147483647
                  ELSE ((s[1] * 256 + s[2]) * 256 + s[3]) * 256 + s[4],
          raw |-> Drop(s, 4)]

U16BE(n) == << (n \div 256) % 256, n % 256 >>
U32BE(n) == << (n \div 16777216) % 256, (n \div 65536) % 256, (n \div 256) % 256, n % 256 >>

\* Format::read and Format::encode: 0 = SingleTrack, 1 = Parallel, 2 = Sequential.
FormatRead(s) ==
    LET Of(r) ==
          IF ~r.ok THEN [ok |-> FALSE, val |-> "none", raw |-> r.raw]
          ELSE IF r.val = 0 THEN [ok |-> TRUE, val |-> "SingleTrack", raw |-> r.raw]
          ELSE IF r.val = 1 THEN [ok |-> TRUE, val |-> "Parallel", raw |-> r.raw]
          ELSE IF r.val = 2 THEN [ok |-> TRUE, val |-> "Sequential", raw |-> r.raw]
          ELSE [ok |-> FALSE, val |-> "none", raw |-> r.raw]
    IN Of(U16Read(s))

FormatEncode(f) ==
    IF f = "SingleTrack" THEN U16BE(0) ELSE IF f = "Parallel" THEN U16BE(1) ELSE U16BE(2)

\* Timing::read and Timing::encode: the top bit selects metrical or timecode.
TimingRead(s) ==
    LET Of(r) ==
          IF ~r.ok THEN [ok |-> FALSE, val |-> 0, raw |-> r.raw]
          ELSE IF r.val < 32768
               THEN [ok |-> TRUE, val |-> [kind |-> "Metrical", a |-> r.val, b |-> 0], raw |-> r.raw]
               ELSE [ok |-> TRUE,
                     val |-> [kind |-> "Timecode", a |-> 256 - (r.val \div 256), b |-> r.val % 256],
                     raw |-> r.raw]
    IN Of(U16Read(s))

TimingEncode(t) ==
    IF t.kind = "Metrical" THEN U16BE(t.a) ELSE << 256 - t.a, t.b >>

(***************************************************************************)
(* The event codec (Event::read, Event::write), outside smf.rs.  Modelled  *)
(* for channel messages: a variable-length delta time, a status byte that  *)
(* running status may omit, and one or two data bytes.                     *)
(***************************************************************************)
\* The variable-length quantity of at most 4 bytes that starts an event.
RECURSIVE VlqRead(_, _, _)
VlqRead(s, acc, n) ==
    IF Len(s) = 0 \/ n = 0 THEN [ok |-> FALSE, val |-> 0, raw |-> s]
    ELSE IF s[1] < 128 THEN [ok |-> TRUE, val |-> acc * 128 + s[1], raw |-> Drop(s, 1)]
    ELSE VlqRead(Drop(s, 1), acc * 128 + (s[1] - 128), n - 1)

RECURSIVE VlqHigh(_)
VlqHigh(k) == IF k = 0 THEN <<>> ELSE VlqHigh(k \div 128) \o << 128 + (k % 128) >>

VlqWrite(n) == VlqHigh(n \div 128) \o << n % 128 >>

DataLen(status) == IF status \div 16 \in {12, 13} THEN 1 ELSE 2

\* Event::read(&mut raw, &mut running_status)
EventRead(s, rs) ==
    LET fail == [ok |-> FALSE, ev |-> 0, raw |-> s, rs |-> rs]
        \* the data bytes of a message of this status, n of them, from body
        Data(delta, status, body, n) ==
          IF status >= 240 \/ Len(body) < n \/ \E i \in 1..n : body[i] >= 128 THEN fail
          ELSE [ok |-> TRUE,
                ev |-> [delta |-> delta, status |-> status, data |-> Take(body, n)],
                raw |-> Drop(body, n),
                rs |-> Some(status)]
        \* the status byte, or the running status when the next byte is a data byte
        Status(d) ==
          IF ~d.ok \/ Len(d.raw) = 0 THEN fail
          ELSE IF d.raw[1] >= 128 THEN Data(d.val, d.raw[1], Drop(d.raw, 1), DataLen(d.raw[1]))
          ELSE IF ~rs.some THEN fail
          ELSE Data(d.val, rs.v, d.raw, DataLen(rs.v))
    IN Status(VlqRead(s, 0, 4))

\* Event::write(&mut running_status, out): the bytes appended and the new running status.
EventWrite(ev, rs) ==
    [bytes |-> VlqWrite(ev.delta)
                 \o (IF rs.some /\ rs.v = ev.status THEN <<>> ELSE << ev.status >>)
                 \o ev.data,
     rs |-> Some(ev.status)]

(***************************************************************************)
(* Header                                                                  *)
(***************************************************************************)
\* Header::read: the header and the declared track count.
HeaderRead(s) ==
    LET Timing(f, c, t) ==
          IF ~t.ok THEN Err("Invalid")
          ELSE Ok([header |-> [format |-> f.val, timing |-> t.val], track_count |-> c.val])
        Count(f, c) == IF ~c.ok THEN Err("Invalid") ELSE Timing(f, c, TimingRead(c.raw))
        Format(f) == IF ~f.ok THEN Err("Invalid") ELSE Count(f, U16Read(f.raw))
    IN Format(FormatRead(s))

\* Header::encode
HeaderEncode(h, track_count) ==
    FormatEncode(h.format) \o U16BE(track_count) \o TimingEncode(h.timing)

(***************************************************************************)
(* Chunk and ChunkIter                                                     *)
(***************************************************************************)
MThd == << 77, 84, 104, 100 >>
MTrk == << 77, 84, 114, 107 >>

ChunkHeader(h) == [tag |-> "Header", header |-> h.header, track_count |-> h.track_count, data |-> <<>>]
ChunkTrack(data) == [tag |-> "Track", header |-> 0, track_count |-> 0, data |-> data]

\* A truncated chunk read as a chunk with no payload.
TruncatedChunkEmpty(s) == [ok |-> TRUE, data |-> <<>>, raw |-> <<>>]

\* The payload of a chunk whose declared length exceeds what remains.
TruncatedChunk(s) ==
    IF strict THEN [ok |-> FALSE, data |-> <<>>, raw |-> s]
    ELSE [ok |-> TRUE, data |-> s, raw |-> <<>>]

\* Chunk::read(&mut raw): res is the Result<Option<Chunk>>, raw the cursor afterwards.
RECURSIVE ChunkRead(_)

\* An unknown id taken as the end of the chunks.
UnknownChunkEnds(rest) == [res |-> Ok(None), raw |-> rest]

\* The match arm of an unknown id: nothing is produced and the loop reads on.
UnknownChunk(rest) == ChunkRead(rest)

ChunkRead(s) ==
    LET Header(h, rest) ==
          IF h.ok THEN [res |-> Ok(Some(ChunkHeader(h.val))), raw |-> rest]
          ELSE [res |-> Err(h.err), raw |-> rest]
        Classify(id, cd) ==
          IF ~cd.ok THEN [res |-> Err("Malformed"), raw |-> cd.raw]
          ELSE IF id = MThd THEN Header(HeaderRead(cd.data), cd.raw)
          ELSE IF id = MTrk THEN [res |-> Ok(Some(ChunkTrack(cd.data))), raw |-> cd.raw]
          ELSE UnknownChunk(cd.raw)
        Data(id, rest, split) ==
          Classify(id, IF split.some THEN [ok |-> TRUE, data |-> split.v, raw |-> split.raw]
                       ELSE TruncatedChunk(rest))
        Length(id, len) ==
          IF ~len.ok THEN [res |-> Err("Invalid"), raw |-> len.raw]
          ELSE Data(id, len.raw, SplitChecked(len.raw, len.val))
        Id(id) ==
          IF ~id.some THEN [res |-> Err("Invalid"), raw |-> id.raw]
          ELSE Length(id.v, U32Read(id.raw))
    IN
    IF Len(s) = 0 THEN [res |-> Ok(None), raw |-> s]
    ELSE Id(SplitChecked(s, 4))

\* A ChunkIter::next that, after a failed read, steps one byte on from where the
\* call began.
ChunkIterNextResyncs(s) ==
    LET Flip(r) ==
          IF r.res.ok THEN
            IF r.res.val.some THEN [item |-> Some(Ok(r.res.val.v)), raw |-> r.raw]
            ELSE [item |-> None, raw |-> r.raw]
          ELSE [item |-> Some(Err(r.res.err)), raw |-> Drop(s, 1)]
    IN Flip(ChunkRead(s))

\* A ChunkIter::next that returns an error and, when the failed read has moved the
\* cursor, leaves it where the read stopped.
ChunkIterNextKeeps(s) ==
    LET Flip(r) ==
          IF r.res.ok THEN
            IF r.res.val.some THEN [item |-> Some(Ok(r.res.val.v)), raw |-> r.raw]
            ELSE [item |-> None, raw |-> r.raw]
          ELSE [item |-> Some(Err(r.res.err)), raw |-> IF r.raw = s THEN <<>> ELSE r.raw]
    IN Flip(ChunkRead(s))

\* A ChunkIter::next that ends the sequence on an error instead of returning it.
ChunkIterNextSilent(s) ==
    LET Flip(r) ==
          IF r.res.ok /\ r.res.val.some THEN [item |-> Some(Ok(r.res.val.v)), raw |-> r.raw]
          ELSE [item |-> None, raw |-> <<>>]
    IN Flip(ChunkRead(s))

\* ChunkIter::next: item is the Option<Result<Chunk>>, raw the cursor afterwards.
ChunkIterNext(s) ==
    LET Flip(r) ==
          IF r.res.ok THEN
            IF r.res.val.some THEN [item |-> Some(Ok(r.res.val.v)), raw |-> r.raw]
            ELSE [item |-> None, raw |-> r.raw]
          ELSE [item |-> Some(Err(r.res.err)), raw |-> <<>>]
    IN Flip(ChunkRead(s))

(***************************************************************************)
(* EventIter                                                               *)
(***************************************************************************)
\* EventIter::new
EventIterNew(s) == [raw |-> s, running_status |-> None]

\* A collect call in progress: the iterator, the Vec so far, and whether the loop
\* still runs ("run"), has ended ("ok") or has returned an error ("err").
Collecting(it) == [iter |-> it, events |-> <<>>, state |-> "run"]

\* A loop iteration that returns the codec's error under either policy.
CollectStepFatal(w) ==
    LET Read(r) ==
          IF r.ok THEN [iter |-> [raw |-> r.raw, running_status |-> r.rs],
                        events |-> Append(w.events, r.ev),
                        state |-> "run"]
          ELSE [w EXCEPT !.state = "err"]
    IN
    IF Len(w.iter.raw) = 0 THEN [w EXCEPT !.state = "ok"]
    ELSE Read(EventRead(w.iter.raw, w.iter.running_status))

\* One iteration of the loop of EventIter::collect.
CollectStep(w) ==
    LET Read(r) ==
          IF r.ok THEN [iter |-> [raw |-> r.raw, running_status |-> r.rs],
                        events |-> Append(w.events, r.ev),
                        state |-> "run"]
          ELSE IF strict THEN [w EXCEPT !.state = "err"]
          ELSE [w EXCEPT !.state = "ok"]
    IN
    IF Len(w.iter.raw) = 0 THEN [w EXCEPT !.state = "ok"]
    ELSE Read(EventRead(w.iter.raw, w.iter.running_status))

RECURSIVE EventCollectLoop(_)
EventCollectLoop(w) == IF w.state = "run" THEN EventCollectLoop(CollectStep(w)) ELSE w

\* What a finished collect call returns.
Collected(w) == IF w.state = "ok" THEN Ok(w.events) ELSE Err("Malformed")

\* EventIter::collect
EventIterCollect(it) == Collected(EventCollectLoop(Collecting(it)))

\* An EventIter::next that yields the codec's error under either policy.
EventIterNextFatal(it) ==
    LET Read(r) ==
          IF r.ok THEN [item |-> Some(Ok(r.ev)), iter |-> [raw |-> r.raw, running_status |-> r.rs]]
          ELSE [item |-> Some(Err("Malformed")),
                iter |-> [raw |-> <<>>, running_status |-> r.rs]]
    IN
    IF Len(it.raw) > 0 THEN Read(EventRead(it.raw, it.running_status))
    ELSE [item |-> None, iter |-> it]

\* An EventIter::next that, after a failed read, steps one byte on and keeps the
\* rest of the track.
EventIterNextResumes(it) ==
    LET Read(r) ==
          IF r.ok THEN [item |-> Some(Ok(r.ev)), iter |-> [raw |-> r.raw, running_status |-> r.rs]]
          ELSE [item |-> IF strict THEN Some(Err("Malformed")) ELSE None,
                iter |-> [raw |-> Drop(it.raw, 1), running_status |-> r.rs]]
    IN
    IF Len(it.raw) > 0 THEN Read(EventRead(it.raw, it.running_status))
    ELSE [item |-> None, iter |-> it]

\* EventIter::next: the Option<Result<Event>> and the iterator afterwards.
EventIterNext(it) ==
    LET Read(r) ==
          IF r.ok THEN [item |-> Some(Ok(r.ev)), iter |-> [raw |-> r.raw, running_status |-> r.rs]]
          ELSE [item |-> IF strict THEN Some(Err("Malformed")) ELSE None,
                iter |-> [raw |-> <<>>, running_status |-> r.rs]]
    IN
    IF Len(it.raw) > 0 THEN Read(EventRead(it.raw, it.running_status))
    ELSE [item |-> None, iter |-> it]

\* A loop iteration that records all unread bytes as the span of the event.
BytemapStepUncut(w) ==
    LET Read(old_raw, r) ==
          IF r.ok THEN [iter |-> [raw |-> r.raw, running_status |-> r.rs],
                        events |-> Append(w.events, [bytes |-> old_raw, ev |-> r.ev]),
                        state |-> "run"]
          ELSE IF strict THEN [w EXCEPT !.state = "err"]
          ELSE [w EXCEPT !.state = "ok"]
    IN
    IF Len(w.iter.raw) = 0 THEN [w EXCEPT !.state = "ok"]
    ELSE Read(w.iter.raw, EventRead(w.iter.raw, w.iter.running_status))

\* One iteration of the loop of EventBytemapIter::collect: pairs of the consumed
\* bytes and the event.
BytemapStep(w) ==
    LET Read(old_raw, r) ==
          IF r.ok THEN [iter |-> [raw |-> r.raw, running_status |-> r.rs],
                        events |-> Append(w.events,
                                          [bytes |-> Take(old_raw, Len(old_raw) - Len(r.raw)),
                                           ev |-> r.ev]),
                        state |-> "run"]
          ELSE IF strict THEN [w EXCEPT !.state = "err"]
          ELSE [w EXCEPT !.state = "ok"]
    IN
    IF Len(w.iter.raw) = 0 THEN [w EXCEPT !.state = "ok"]
    ELSE Read(w.iter.raw, EventRead(w.iter.raw, w.iter.running_status))

RECURSIVE BytemapCollectLoop(_)
BytemapCollectLoop(w) == IF w.state = "run" THEN BytemapCollectLoop(BytemapStep(w)) ELSE w

\* EventBytemapIter::collect
BytemapCollect(it) == Collected(BytemapCollectLoop(Collecting(it)))

\* EventBytemapIter::next
BytemapNext(it) ==
    LET Map(old_raw, n) ==
          IF n.item.some /\ n.item.v.ok THEN
            [item |-> Some(Ok([bytes |-> Take(old_raw, Len(old_raw) - Len(n.iter.raw)),
                               ev |-> n.item.v.val])),
             iter |-> n.iter]
          ELSE n
    IN Map(it.raw, EventIterNext(it))

(***************************************************************************)
(* TrackIter                                                               *)
(***************************************************************************)
SaturatingSub1(n) == IF n = 0 THEN 0 ELSE n - 1

\* A TrackIter::next that skips duplicate headers and unreadable chunks under
\* either policy.
RECURSIVE TrackIterNextSkips(_, _)
TrackIterNextSkips(s, hint) ==
    LET Chunk(c, hint1) ==
          IF ~c.item.some THEN [item |-> None, raw |-> c.raw, hint |-> hint]
          ELSE IF c.item.v.ok /\ c.item.v.val.tag = "Track"
            THEN [item |-> Some(Ok(EventIterNew(c.item.v.val.data))), raw |-> c.raw, hint |-> hint1]
          ELSE TrackIterNextSkips(c.raw, hint1)
    IN Chunk(ChunkIterNext(s), SaturatingSub1(hint))

\* TrackIter::next: the Option<Result<EventIter>>, the chunk cursor and the hint afterwards.
RECURSIVE TrackIterNext(_, _)
TrackIterNext(s, hint) ==
    LET Chunk(c, hint1) ==
          IF ~c.item.some THEN [item |-> None, raw |-> c.raw, hint |-> hint]
          ELSE IF c.item.v.ok /\ c.item.v.val.tag = "Track"
            THEN [item |-> Some(Ok(EventIterNew(c.item.v.val.data))), raw |-> c.raw, hint |-> hint1]
          ELSE IF c.item.v.ok
            \* another header
            THEN IF strict THEN [item |-> Some(Err("Malformed")), raw |-> c.raw, hint |-> hint1]
                 ELSE TrackIterNext(c.raw, hint1)
          \* failed to read the chunk
          ELSE IF strict THEN [item |-> Some(Err("Malformed")), raw |-> c.raw, hint |-> hint1]
               ELSE TrackIterNext(c.raw, hint1)
    IN Chunk(ChunkIterNext(s), SaturatingSub1(hint))

(***************************************************************************)
(* generic_collect, parse, validate_smf, Smf::parse                        *)
(***************************************************************************)
PARALLEL_ENABLE_THRESHOLD == 4096

\* The closure generic_collect is given: EventIter::collect for collect_events,
\* |events| events.bytemapped().collect() for collect_bytemapped.
Collect(it, bytemapped) == IF bytemapped THEN BytemapCollect(it) ELSE EventIterCollect(it)

\* generic_collect's fallback: self.map(|r| r.and_then(&collect)).collect::<Result<_>>()
RECURSIVE SequentialCollect(_, _, _, _)
SequentialCollect(s, hint, bytemapped, acc) ==
    LET Push(n, t) ==
          IF ~t.ok THEN Err(t.err)
          ELSE SequentialCollect(n.raw, n.hint, bytemapped, Append(acc, t.val))
        Track(n) ==
          IF ~n.item.some THEN Ok(acc)
          ELSE IF ~n.item.v.ok THEN Err(n.item.v.err)
          ELSE Push(n, Collect(n.item.v.val, bytemapped))
    IN Track(TrackIterNext(s, hint))

\* The parallel path's first pass: self.collect::<Result<Vec<_>>>()
RECURSIVE CaptureChunks(_, _, _)
CaptureChunks(s, hint, acc) ==
    LET Track(n) ==
          IF ~n.item.some THEN Ok(acc)
          ELSE IF ~n.item.v.ok THEN Err(n.item.v.err)
          ELSE CaptureChunks(n.raw, n.hint, Append(acc, n.item.v.val))
    IN Track(TrackIterNext(s, hint))

\* A join that returns the tasks' results last first.
ParJoinReversed(rs) ==
    IF \E i \in 1..Len(rs) : ~rs[i].ok THEN Err("Malformed")
    ELSE Ok([i \in 1..Len(rs) |-> rs[Len(rs) + 1 - i].val])

\* The parallel path's join: .collect::<Result<Vec<Vec<T>>>>() over the tasks'
\* results rs. Every task's error has the same kind, so which one surfaces does
\* not show in the result.
ParJoin(rs) ==
    IF \E i \in 1..Len(rs) : ~rs[i].ok
      THEN Err((CHOOSE r \in {rs[i] : i \in 1..Len(rs)} : ~r.ok).err)
    ELSE Ok([i \in 1..Len(rs) |-> rs[i].val])

\* The tasks of chunk_vec.into_par_iter().map(collect), one per captured EventIter.
Fork(cv) == [i \in 1..Len(cv) |-> Collecting(cv[i])]

\* A task runner that keeps one running status for all tasks: the status task i
\* ends its step with is what the next task, if it has not started, starts with.
RunTaskShared(ws, i) ==
    [j \in 1..Len(ws) |->
       IF j = i THEN CollectStep(ws[i])
       ELSE IF j = i + 1 /\ ws[j].events = <<>> /\ ws[j].state = "run"
         THEN [ws[j] EXCEPT !.iter.running_status = CollectStep(ws[i]).iter.running_status]
       ELSE ws[j]]

\* Task i runs one iteration of its own collect loop; no other task changes.
RunTask(ws, i) == [ws EXCEPT ![i] = CollectStep(ws[i])]

\* chunk_vec.into_par_iter().map(collect).collect()
ParallelCollect(cv, bytemapped) ==
    ParJoin([i \in 1..Len(cv) |-> Collect(cv[i], bytemapped)])

\* A threshold test that needs more than PARALLEL_ENABLE_THRESHOLD bytes.
UseParallelAbove(s) == parallel /\ Len(s) > PARALLEL_ENABLE_THRESHOLD

\* Whether generic_collect takes the parallel path on the unread bytes s.
UseParallel(s) == parallel /\ Len(s) >= PARALLEL_ENABLE_THRESHOLD

\* TrackIter::generic_collect
GenericCollect(s, hint, bytemapped) ==
    LET Fan(cv) == IF ~cv.ok THEN Err(cv.err) ELSE ParallelCollect(cv.val, bytemapped)
    IN
    IF UseParallel(s) THEN Fan(CaptureChunks(s, hint, <<>>))
    ELSE SequentialCollect(s, hint, bytemapped, <<>>)

\* riff::unwrap: the payload of the "data" chunk of a RIFF "RMID" wrapper, if any.
RIFF == << 82, 73, 70, 70 >>
RMIDdata == << 82, 77, 73, 68, 100, 97, 116, 97 >>
RiffUnwrap(s) ==
    IF Len(s) >= 20 /\ Take(s, 4) = RIFF /\ SubSeq(s, 9, 16) = RMIDdata
      THEN LET n == ((s[20] * 256 + s[19]) * 256 + s[18]) * 256 + s[17] IN
           IF Len(s) >= 20 + n THEN Some(SubSeq(s, 21, 20 + n)) ELSE None
    ELSE None

\* A parse that takes a track chunk found first as the first track of a file whose
\* header is missing.
ParseTrackFirst(s) ==
    LET Chunk(maybe_chunk, rest) ==
          IF ~maybe_chunk.ok THEN Err(maybe_chunk.err)
          ELSE IF maybe_chunk.val.tag = "Header"
            THEN Ok([header |-> maybe_chunk.val.header,
                     chunks |-> rest,
                     track_count_hint |-> maybe_chunk.val.track_count])
          ELSE Ok([header |-> [format |-> "Parallel",
                               timing |-> [kind |-> "Metrical", a |-> 96, b |-> 0]],
                   chunks |-> rest,
                   track_count_hint |-> 0])
        First(c) ==
          IF ~c.item.some THEN Err("Invalid")
          ELSE Chunk(Context(c.item.v, "Invalid"), c.raw)
        Unwrapped(w) == IF w.some THEN w.v ELSE s
    IN First(ChunkIterNext(Unwrapped(RiffUnwrap(s))))

\* parse: the header and the TrackIter over the rest.
Parse(s) ==
    LET Chunk(maybe_chunk, rest) ==
          IF ~maybe_chunk.ok THEN Err(maybe_chunk.err)
          ELSE IF maybe_chunk.val.tag = "Header"
            THEN Ok([header |-> maybe_chunk.val.header,
                     chunks |-> rest,
                     track_count_hint |-> maybe_chunk.val.track_count])
          ELSE Err("Invalid")
        First(c) ==
          IF ~c.item.some THEN Err("Invalid")
          ELSE Chunk(Context(c.item.v, "Invalid"), c.raw)
        Unwrapped(w) == IF w.some THEN w.v ELSE s
    IN First(ChunkIterNext(Unwrapped(RiffUnwrap(s))))

\* validate_smf without the comparison with the declared count.
ValidateSmfNoCount(h, hint, track_count) ==
    IF strict /\ ~(h.format # "SingleTrack" \/ track_count = 1) THEN Err("Malformed") ELSE Ok(0)

\* validate_smf without the SingleTrack rule.
ValidateSmfNoFormat(h, hint, track_count) ==
    IF strict /\ hint # track_count THEN Err("Malformed") ELSE Ok(0)

\* validate_smf with its checks made under either policy.
ValidateSmfAlways(h, hint, track_count) ==
    IF hint # track_count THEN Err("Malformed")
    ELSE IF ~(h.format # "SingleTrack" \/ track_count = 1) THEN Err("Malformed")
    ELSE Ok(0)

\* validate_smf
ValidateSmf(h, hint, track_count) ==
    IF strict THEN
      IF hint # track_count THEN Err("Malformed")
      ELSE IF ~(h.format # "SingleTrack" \/ track_count = 1) THEN Err("Malformed")
      ELSE Ok(0)
    ELSE Ok(0)

\* Smf::parse (bytemapped = FALSE) and SmfBytemap::parse (bytemapped = TRUE)
ParseWith(s, bytemapped) ==
    LET Container(h, t, v) ==
          IF ~v.ok THEN Err(v.err) ELSE Ok([header |-> h, tracks |-> t])
        Validate(h, hint, t) ==
          IF ~t.ok THEN Err(t.err)
          ELSE Container(h, t.val, ValidateSmf(h, hint, Len(t.val)))
        Tracks(p) ==
          IF ~p.ok THEN Err(p.err)
          ELSE Validate(p.val.header, p.val.track_count_hint,
                        GenericCollect(p.val.chunks, p.val.track_count_hint, bytemapped))
    IN Tracks(Parse(s))

SmfParse(s) == ParseWith(s, FALSE)
SmfBytemapParse(s) == ParseWith(s, TRUE)

(***************************************************************************)
(* The writer                                                              *)
(***************************************************************************)
\* A write_header that casts the track count to 16 bits instead of converting it.
WriteHeaderWraps(h, track_count) ==
    LET Chunk(hb) == Ok(MThd \o U32BE(Len(hb)) \o hb) IN
    Chunk(HeaderEncode(h, track_count % 65536))

\* Chunk::write_header: the bytes written to the sink, or InvalidInput.
WriteHeader(h, track_count) ==
    LET Chunk(hb) == Ok(MThd \o U32BE(Len(hb)) \o hb) IN
    IF track_count > 65535 THEN Err("InvalidInput")
    ELSE Chunk(HeaderEncode(h, track_count))

RECURSIVE WriteEvents(_, _, _)
WriteEvents(events, rs, buf) ==
    LET Written(w) == WriteEvents(Tail(events), w.rs, buf \o w.bytes) IN
    IF Len(events) = 0 THEN buf
    ELSE Written(EventWrite(Head(events), rs))

\* A write_track that leaves the length field as it was reserved.
WriteTrackUnpatched(track, buf) ==
    Ok(WriteEvents(track, None, buf \o MTrk \o << 0, 0, 0, 0 >>))

\* Chunk::write_track(track, out): the Vec out afterwards.
WriteTrack(track, buf) ==
    LET Patch(b1, len) ==
          IF len \div 65536 >= 65536 THEN Err("InvalidInput")
          ELSE Ok(Take(b1, 4) \o U32BE(len) \o Drop(b1, 8))
        Sized(b1) == Patch(b1, Len(b1) - 8)
    IN Sized(WriteEvents(track, None, buf \o MTrk \o << 0, 0, 0, 0 >>))

\* A loop of write that goes on with the buffer as the last track left it.
TrackChunkKept(buf) == buf

\* track_chunk.clear()
TrackChunkClear(buf) == <<>>

(***************************************************************************)
(* Inputs.  A file is assembled from parts: complete chunks, chunks whose  *)
(* declared length overruns their payload, and stray bytes too short for a *)
(* chunk prefix.                                                           *)
(***************************************************************************)
MaxChunks == 3
\* The longest body of a file of a parallel build.
MaxParChunks == 2

ChunkPart(id, len, data) == [kind |-> "chunk", id |-> id, len |-> len, data |-> data]
StrayPart(data) == [kind |-> "stray", id |-> <<>>, len |-> 0, data |-> data]
\* A complete chunk of len zero bytes, kept short in the bookkeeping.
ZeroPart(id, len) == [kind |-> "zeros", id |-> id, len |-> len, data |-> <<>>]

PartBytes(p) ==
    IF p.kind = "chunk" THEN p.id \o U32BE(p.len) \o p.data
    ELSE IF p.kind = "zeros" THEN p.id \o U32BE(p.len) \o [i \in 1..p.len |-> 0]
    ELSE p.data

RECURSIVE FileBytes(_)
FileBytes(ps) == IF Len(ps) = 0 THEN <<>> ELSE PartBytes(Head(ps)) \o FileBytes(Tail(ps))

\* Track payloads: two events sharing a status byte; one event; an event that
\* needs a running status at the start of the track; one event and a cut-off one.
TrackA == << 0, 192, 5, 0, 6 >>
TrackB == << 0, 193, 7 >>
TrackNoStatus == << 0, 5 >>
TrackCut == << 0, 192, 5, 0, 192 >>

XUnk == << 88, 85, 110, 107 >>

HeaderPart(format, count) ==
    ChunkPart(MThd, 6, HeaderEncode([format |-> format, timing |-> [kind |-> "Metrical", a |-> 96, b |-> 0]], count))
TrackPart(data) == ChunkPart(MTrk, Len(data), data)
UnknownPart == ChunkPart(XUnk, 2, << 1, 2 >>)
\* An unknown chunk large enough to carry the rest of the file over the threshold.
PadPart == ZeroPart(XUnk, PARALLEL_ENABLE_THRESHOLD)

CompleteParts ==
    {TrackPart(TrackA), TrackPart(TrackB), TrackPart(TrackNoStatus), UnknownPart,
     HeaderPart("Parallel", 1)}

\* A header chunk too short to decode.
BadHeaderPart == ChunkPart(MThd, 2, <<0, 1>>)

\* What may end a file: nothing, a header chunk too short to decode, a track chunk
\* declaring more bytes than remain, 3 bytes (no chunk id can be read), 6 bytes (an
\* id, but no length).
Tails ==
    {<<>>,
     << BadHeaderPart >>,
     << ChunkPart(MTrk, 9, TrackCut) >>,
     << StrayPart(<< 77, 84, 114 >>) >>,
     << StrayPart(<< 77, 84, 114, 107, 0, 0 >>) >>}

SeqsUpTo(S, n) == UNION {[1..k -> S] : k \in 0..n}

Bodies(n) == {b \o t : b \in SeqsUpTo(CompleteParts, n), t \in Tails}

Headers ==
    {HeaderPart("Parallel", 2), HeaderPart("SingleTrack", 0),
     HeaderPart("SingleTrack", 1), HeaderPart("SingleTrack", 2)}

\* Files: a body alone (no header first, or no bytes at all), or a header and a
\* body; in a parallel build also a header, the pad and a body.
Files(par) ==
    IF par
      THEN Bodies(MaxParChunks)
           \cup {<<h>> \o b : h \in Headers, b \in Bodies(MaxParChunks)}
           \cup {<<h, PadPart>> \o b : h \in Headers, b \in Bodies(MaxParChunks)}
    ELSE Bodies(MaxChunks) \cup {<<h>> \o b : h \in Headers, b \in Bodies(MaxChunks)}

Idle ==
    /\ chunks = <<>> /\ track_count_hint = 0 /\ header = None /\ chunk_vec = <<>>
    /\ workers = <<>> /\ tracks = None /\ result = None /\ smf = None /\ out = <<>>
    /\ iter = None /\ yielded = <<>>

(***************************************************************************)
(* Spec: Smf::parse and SmfBytemap::parse applied to a file.               *)
(***************************************************************************)
Init ==
    /\ strict \in BOOLEAN
    /\ parallel \in BOOLEAN
    /\ pieces \in Files(parallel)
    /\ track_chunk = <<>>
    /\ raw = FileBytes(pieces)
    /\ pc = "start"
    /\ Idle

\* Smf::parse(raw), keeping what parse and collect_events returned on the way.
CallSmfParse ==
    /\ pc = "start"
    /\ pc' = "parsed"
    /\ header' = Some(Parse(raw))
    /\ tracks' = LET Of(p) ==
                       IF p.ok THEN Some(GenericCollect(p.val.chunks, p.val.track_count_hint, FALSE))
                       ELSE None
                 IN Of(Parse(raw))
    /\ result' = Some(SmfParse(raw))
    /\ UNCHANGED <<strict, parallel, raw, chunks, track_count_hint, chunk_vec, workers,
                   smf, out, iter, yielded, pieces, track_chunk>>

\* SmfBytemap::parse(raw)
CallSmfBytemapParse ==
    /\ pc = "start"
    /\ pc' = "bytemapped"
    /\ header' = Some(Parse(raw))
    /\ tracks' = LET Of(p) ==
                       IF p.ok THEN Some(GenericCollect(p.val.chunks, p.val.track_count_hint, TRUE))
                       ELSE None
                 IN Of(Parse(raw))
    /\ result' = Some(SmfBytemapParse(raw))
    /\ UNCHANGED <<strict, parallel, raw, chunks, track_count_hint, chunk_vec, workers,
                   smf, out, iter, yielded, pieces, track_chunk>>

Next == CallSmfParse \/ CallSmfBytemapParse

Spec == Init /\ [][Next]_vars

(***************************************************************************)
(* What the bookkeeping says about a file, independently of the parser     *)
(***************************************************************************)
IsComplete(p) == p.kind = "zeros" \/ (p.kind = "chunk" /\ p.len = Len(p.data))
IsHeaderPart(p) == IsComplete(p) /\ p.id = MThd /\ HeaderRead(p.data).ok
IsTrackPart(p) == IsComplete(p) /\ p.id = MTrk
IsUnknownPart(p) == IsComplete(p) /\ p.id # MThd /\ p.id # MTrk

\* A header chunk first, then only complete track chunks and complete unknown chunks.
WellFormed(ps) ==
    /\ Len(ps) >= 1
    /\ IsHeaderPart(ps[1])
    /\ \A k \in 2..Len(ps) : IsTrackPart(ps[k]) \/ IsUnknownPart(ps[k])

\* The payloads of the track chunks after the first part, left to right.
TrackPayloads(ps) ==
    LET RECURSIVE Pick(_)
        Pick(k) == IF k > Len(ps) THEN <<>>
                   ELSE IF ps[k].id = MTrk THEN << ps[k].data >> \o Pick(k + 1)
                   ELSE Pick(k + 1)
    IN Pick(2)

\* The decode of one track payload on its own, from a fresh EventIter.
DecodeAlone(data) == EventIterCollect(EventIterNew(data))

\* The declared track count and the format in the header part.
Declared(ps) == HeaderRead(ps[1].data).val.track_count
DeclaredFormat(ps) == HeaderRead(ps[1].data).val.header.format

\* C2: when the chunks after the header are complete track chunks interleaved with
\* complete unknown chunks, collect_events returns, in this order, the decode of the
\* 1st, 2nd, ... track chunk of the input, on the sequential and on the parallel
\* path; it fails exactly when one of these decodes fails.
C2_TrackOrder ==
    (pc = "parsed" /\ WellFormed(pieces)) =>
      LET tp == TrackPayloads(pieces)
          exp == [i \in 1..Len(tp) |-> DecodeAlone(tp[i])]
      IN
      /\ tracks.some
      /\ IF \A i \in 1..Len(tp) : exp[i].ok
           THEN tracks.v = Ok([i \in 1..Len(tp) |-> exp[i].val])
           ELSE ~tracks.v.ok

\* Two different tracks around an unknown chunk came back in input order, on the
\* parallel path.
C2_Witness ==
    /\ pc = "parsed" /\ WellFormed(pieces) /\ header.v.ok
    /\ UseParallel(header.v.val.chunks)
    /\ \E k \in 2..Len(pieces) : IsUnknownPart(pieces[k])
    /\ tracks.v.ok /\ Len(tracks.v.val) = 2 /\ tracks.v.val[1] # tracks.v.val[2]
    /\ Len(tracks.v.val[1]) = 2

\* C4: a well-formed file whose header declares d tracks and that holds n # d track
\* chunks: strict Smf::parse returns a Malformed error, lenient Smf::parse returns
\* a container with exactly the n tracks.
C4_CountMismatch ==
    (pc = "parsed" /\ WellFormed(pieces)
       /\ Declared(pieces) # Len(TrackPayloads(pieces))) =>
      IF strict THEN result.v = Err("Malformed")
      ELSE /\ result.v.ok
           /\ result.v.val.tracks =
                [i \in 1..Len(TrackPayloads(pieces)) |-> DecodeAlone(TrackPayloads(pieces)[i]).val]

C4_Witness ==
    /\ pc = "parsed" /\ WellFormed(pieces) /\ strict
    /\ Declared(pieces) = 2 /\ Len(TrackPayloads(pieces)) = 3
    /\ \A i \in 1..3 : DecodeAlone(TrackPayloads(pieces)[i]).ok
    /\ result.v = Err("Malformed")

\* C5: with a SingleTrack header, strict Smf::parse succeeds only with exactly one
\* track; lenient Smf::parse of a well-formed SingleTrack file succeeds and returns
\* every track chunk's decode.
C5_SingleTrack ==
    (pc = "parsed" /\ header.v.ok /\ header.v.val.header.format = "SingleTrack") =>
      /\ (strict /\ result.v.ok) => Len(result.v.val.tracks) = 1
      /\ (~strict /\ WellFormed(pieces)) =>
            /\ result.v.ok
            /\ result.v.val.tracks =
                 [i \in 1..Len(TrackPayloads(pieces)) |-> DecodeAlone(TrackPayloads(pieces)[i]).val]

\* A SingleTrack file declaring 2 tracks and holding 2 decodable tracks is rejected
\* by the strict build.
C5_Witness ==
    /\ pc = "parsed" /\ strict /\ WellFormed(pieces)
    /\ DeclaredFormat(pieces) = "SingleTrack"
    /\ Declared(pieces) = 2 /\ Len(TrackPayloads(pieces)) = 2
    /\ \A i \in 1..2 : DecodeAlone(TrackPayloads(pieces)[i]).ok
    /\ ~result.v.ok

\* The file with the complete chunk u put in before its k-th part.
InsertBefore(ps, k, u) == SubSeq(ps, 1, k - 1) \o << u >> \o SubSeq(ps, k, Len(ps))

\* The chunks put in: unknown ids, one of them a case variant of MTrk, with and
\* without payload.
InsertedChunks == {UnknownPart, ChunkPart(<< 77, 84, 114, 75 >>, 0, <<>>)}

\* The places between the header chunk and a later chunk, or between two later
\* chunks: before the k-th part, every part before it being a complete chunk, one
\* of them the header.
InsertionPlaces(ps) ==
    {k \in 2..Len(ps) :
        /\ \A j \in 1..(k - 1) : IsComplete(ps[j])
        /\ \E j \in 1..(k - 1) : IsHeaderPart(ps[j])}

\* C7: a file that Smf::parse accepts is parsed to the same container after a
\* complete chunk of unknown id is put in between the header chunk and the chunk
\* after it, or between two later chunks.
C7_UnknownChunkSkip ==
    (pc = "parsed" /\ result.v.ok) =>
      \A k \in InsertionPlaces(pieces) : \A u \in InsertedChunks :
        SmfParse(FileBytes(InsertBefore(pieces, k, u))) = result.v

\* An accepted file with two tracks, which has a place between the two.
C7_Witness ==
    /\ pc = "parsed" /\ result.v.ok /\ Len(result.v.val.tracks) = 2
    /\ Len(result.v.val.tracks[1]) > 0
    /\ \E k \in InsertionPlaces(pieces) : IsTrackPart(pieces[k - 1]) /\ IsTrackPart(pieces[k])

\* The framer comes to stray bytes too short for a chunk prefix: they follow
\* complete chunks only.
StrayReached(ps) ==
    \E k \in 1..Len(ps) : ps[k].kind = "stray" /\ \A j \in 1..(k - 1) : IsComplete(ps[j])

HasHeaderPart(ps) == \E k \in 1..Len(ps) : IsHeaderPart(ps[k])

\* The first chunk the framer returns is a header: only complete unknown chunks
\* come before the first header part.
HeaderFirst(ps) ==
    \E k \in 1..Len(ps) : IsHeaderPart(ps[k]) /\ \A j \in 1..(k - 1) : IsUnknownPart(ps[j])

\* C10 as stated: under both policies Smf::parse fails when the input is empty, has
\* no header chunk, or holds, anywhere, a chunk whose id or length cannot be read.
C10_AsStated ==
    (pc = "parsed" /\ (Len(raw) = 0 \/ ~HasHeaderPart(pieces) \/ StrayReached(pieces)))
      => ~result.v.ok

\* C10 amended: under both policies parse fails with an Invalid error when the
\* input is empty or has no header chunk (which includes an unreadable prefix
\* before any header); the strict build also fails on an unreadable prefix after
\* the header; the lenient build ignores an unreadable prefix after the header and
\* succeeds.
C10_InvalidFatal ==
    pc = "parsed" =>
      /\ (Len(raw) = 0 \/ ~HasHeaderPart(pieces)) => result.v = Err("Invalid")
      /\ (strict /\ StrayReached(pieces)) => ~result.v.ok
      /\ (~strict /\ StrayReached(pieces) /\ HeaderFirst(pieces)) => result.v.ok

\* The lenient build accepted a file that ends in an unreadable chunk prefix and
\* returned the track before it.
C10_Witness ==
    /\ pc = "parsed" /\ ~strict /\ StrayReached(pieces) /\ HeaderFirst(pieces)
    /\ result.v.ok /\ Len(result.v.val.tracks) = 1 /\ Len(result.v.val.tracks[1]) = 2

(***************************************************************************)
(* SpecCollect: collect_events on the TrackIter that parse returned, step  *)
(* by step: the sequential loop, or the capture, the tasks in any          *)
(* interleaving, and the join.                                             *)
(***************************************************************************)
CollectHeaders == {HeaderPart("Parallel", 2)}

\* Files around the threshold: an unknown chunk that brings the bytes after the
\* header, a track chunk of 13 bytes included, to one less than the threshold and
\* to the threshold; and a track chunk of as many zero bytes as the threshold.
EdgeFiles ==
    {<<h, ZeroPart(XUnk, PARALLEL_ENABLE_THRESHOLD - 21 - d), TrackPart(TrackA)>> :
       h \in CollectHeaders, d \in {0, 1}}
    \cup {<<h, ZeroPart(MTrk, PARALLEL_ENABLE_THRESHOLD), TrackPart(TrackA)>> : h \in CollectHeaders}

CollectFiles ==
    {<<h>> \o b : h \in CollectHeaders, b \in Bodies(MaxParChunks)}
    \cup {<<h, PadPart>> \o b : h \in CollectHeaders, b \in Bodies(MaxParChunks)}
    \cup EdgeFiles

InitCollect ==
    /\ strict \in BOOLEAN
    /\ parallel = TRUE
    /\ pieces \in CollectFiles
    /\ track_chunk = <<>>
    /\ raw = FileBytes(pieces)
    /\ pc = "collect"
    /\ chunks = Parse(raw).val.chunks
    /\ track_count_hint = Parse(raw).val.track_count_hint
    /\ header = None /\ chunk_vec = <<>> /\ workers = <<>> /\ tracks = <<>>
    /\ result = None /\ smf = None /\ out = <<>> /\ iter = None /\ yielded = <<>>

\* The fallback: one round of self.map(|r| r.and_then(&collect)).collect().
SequentialStep ==
    /\ pc \in {"collect", "sequential"}
    /\ pc = "collect" => ~UseParallel(chunks)
    /\ LET Push(n, t) ==
              IF ~t.ok THEN /\ result' = Some(Err(t.err)) /\ pc' = "done" /\ tracks' = tracks
              ELSE /\ result' = result /\ pc' = "sequential" /\ tracks' = Append(tracks, t.val)
            Track(n) ==
              /\ chunks' = n.raw
              /\ track_count_hint' = n.hint
              /\ IF ~n.item.some
                   THEN /\ result' = Some(Ok(tracks)) /\ pc' = "done" /\ tracks' = tracks
                 ELSE IF ~n.item.v.ok
                   THEN /\ result' = Some(Err(n.item.v.err)) /\ pc' = "done" /\ tracks' = tracks
                 ELSE Push(n, Collect(n.item.v.val, FALSE))
       IN Track(TrackIterNext(chunks, track_count_hint))
    /\ UNCHANGED <<strict, parallel, raw, header, chunk_vec, workers, smf, out, iter,
                   yielded, pieces, track_chunk>>

\* The parallel path's first pass, and the fork of one task per captured track.
Capture ==
    /\ pc = "collect"
    /\ UseParallel(chunks)
    /\ LET Captured(cv) ==
              IF ~cv.ok
                THEN /\ result' = Some(Err(cv.err)) /\ pc' = "done"
                     /\ chunk_vec' = chunk_vec /\ workers' = workers
              ELSE /\ result' = result /\ pc' = "fork"
                   /\ chunk_vec' = cv.val /\ workers' = Fork(cv.val)
       IN Captured(CaptureChunks(chunks, track_count_hint, <<>>))
    /\ chunks' = <<>>
    /\ UNCHANGED <<strict, parallel, raw, track_count_hint, header, tracks, smf, out, iter,
                   yielded, pieces, track_chunk>>

\* A worker thread advances task i by one event.
TaskStep(i) ==
    /\ pc = "fork"
    /\ workers[i].state = "run"
    /\ workers' = RunTask(workers, i)
    /\ UNCHANGED <<strict, parallel, raw, pc, chunks, track_count_hint, header, chunk_vec,
                   tracks, result, smf, out, iter, yielded, pieces, track_chunk>>

\* Every task has ended: the results are collected in the order of chunk_vec.
Join ==
    /\ pc = "fork"
    /\ \A i \in 1..Len(workers) : workers[i].state # "run"
    /\ result' = Some(ParJoin([i \in 1..Len(workers) |-> Collected(workers[i])]))
    /\ pc' = "done"
    /\ UNCHANGED <<strict, parallel, raw, chunks, track_count_hint, header, chunk_vec,
                   workers, tracks, smf, out, iter, yielded, pieces, track_chunk>>

NextCollect ==
    \/ SequentialStep
    \/ Capture
    \/ \E i \in 1..Len(workers) : TaskStep(i)
    \/ Join

SpecCollect == InitCollect /\ [][NextCollect]_vars

\* The state of a collect call that has run k iterations on the span of it alone.
RECURSIVE StepsAlone(_, _)
StepsAlone(w, k) == IF k = 0 THEN w ELSE StepsAlone(CollectStep(w), k - 1)

\* C3: whatever the interleaving of the tasks, (1) the parallel path returns what
\* the sequential loop returns on the same TrackIter: the same tracks, or an error
\* exactly when it returns an error; (2) every task is, at every moment, in a state
\* that decoding its own span alone, from running status None, goes through.
C3_ParallelEqualsSequential ==
    /\ pc = "done" =>
         result.v = SequentialCollect(Parse(raw).val.chunks, Parse(raw).val.track_count_hint,
                                      FALSE, <<>>)
    /\ pc = "fork" =>
         \A i \in 1..Len(workers) :
           \E k \in 0..(Len(chunk_vec[i].raw) + 1) :
             workers[i] = StepsAlone(Collecting(chunk_vec[i]), k)

\* The parallel path has joined a track of two events and, after it, a track whose
\* first event has no status byte: the lenient build returned that one empty.
C3_Witness ==
    /\ pc = "done" /\ Len(workers) = 2 /\ ~strict
    /\ chunk_vec[1].raw = TrackA /\ chunk_vec[2].raw = TrackNoStatus
    /\ result.v.ok /\ Len(result.v.val[1]) = 2 /\ result.v.val[2] = <<>>

(***************************************************************************)
(* SpecChunks: a caller pulls from a ChunkIter, or from the TrackIter made *)
(* of it, and goes on pulling after the end and after errors.              *)
(***************************************************************************)
MaxPulls == 5
MaxStreamParts == 3

OverlongPart == ChunkPart(MTrk, 100, <<>>)

StreamParts ==
    {TrackPart(TrackA), UnknownPart, HeaderPart("Parallel", 1), BadHeaderPart, OverlongPart,
     ChunkPart(MTrk, 9, TrackCut), ChunkPart(XUnk, 9, <<1, 2>>),
     ChunkPart(XUnk, 0, <<>>), TrackPart(<<>>),
     StrayPart(<<77, 84, 114>>), StrayPart(<<77, 84, 114, 107, 0, 0>>)}

Streams == SeqsUpTo(StreamParts, MaxStreamParts)

InitChunks ==
    /\ strict \in BOOLEAN
    /\ parallel = FALSE
    /\ pieces \in Streams
    /\ track_chunk = <<>>
    /\ raw = FileBytes(pieces)
    /\ pc \in {"chunks", "tracks"}
    /\ chunks = raw
    /\ track_count_hint = 1
    /\ header = None /\ chunk_vec = <<>> /\ workers = <<>> /\ tracks = None
    /\ result = None /\ smf = None /\ out = <<>> /\ iter = None /\ yielded = <<>>

\* One call of ChunkIter::next.
PullChunk ==
    /\ pc = "chunks"
    /\ Len(yielded) < MaxPulls
    /\ LET Pulled(n) ==
              /\ chunks' = n.raw
              /\ yielded' = Append(yielded, [before |-> chunks, item |-> n.item, after |-> n.raw])
       IN Pulled(ChunkIterNext(chunks))
    /\ UNCHANGED <<strict, parallel, raw, pc, track_count_hint, header, chunk_vec, workers,
                   tracks, result, smf, out, iter, pieces, track_chunk>>

\* One call of TrackIter::next.
PullTrack ==
    /\ pc = "tracks"
    /\ Len(yielded) < MaxPulls
    /\ LET Pulled(n) ==
              /\ chunks' = n.raw
              /\ track_count_hint' = n.hint
              /\ yielded' = Append(yielded, [before |-> chunks, item |-> n.item, after |-> n.raw])
       IN Pulled(TrackIterNext(chunks, track_count_hint))
    /\ UNCHANGED <<strict, parallel, raw, pc, header, chunk_vec, workers, tracks, result,
                   smf, out, iter, pieces, track_chunk>>

NextChunks == PullChunk \/ PullTrack

SpecChunks == InitChunks /\ [][NextChunks]_vars

\* The cursor s stands at a chunk prefix whose declared length is larger than the
\* number of bytes after the prefix.
DeclaresTooMuch(s) == Len(s) >= 8 /\ U32Read(Drop(Take(s, 8), 4)).val > Len(s) - 8

\* C8: a read that starts at a chunk declaring more bytes than remain after its
\* prefix: under the strict policy it fails with a Malformed error; under the
\* lenient policy the chunk's payload is every remaining byte (a track chunk is
\* produced with them, a header chunk is decoded from them, an unknown chunk is
\* skipped with them) and the cursor is left at end-of-input.
C8_TruncatedChunk ==
    \A i \in 1..Len(yielded) :
      LET r == yielded[i]
          id == Take(r.before, 4)
          rest == Drop(r.before, 8)
      IN DeclaresTooMuch(r.before) =>
           IF strict THEN r.item = Some(Err("Malformed"))
           ELSE /\ r.after = <<>>
                /\ pc = "chunks" /\ id = MTrk => r.item = Some(Ok(ChunkTrack(rest)))
                /\ pc = "tracks" /\ id = MTrk => r.item = Some(Ok(EventIterNew(rest)))
                /\ pc = "chunks" /\ id = MThd =>
                     r.item = IF HeaderRead(rest).ok
                                THEN Some(Ok(ChunkHeader(HeaderRead(rest).val)))
                              ELSE Some(Err("Invalid"))
                /\ id # MTrk /\ id # MThd => r.item = None

\* The lenient ChunkIter has read a track chunk declaring 9 bytes with 5 left, and
\* produced a track of those 5 bytes.
C8_Witness ==
    /\ ~strict /\ pc = "chunks"
    /\ \E i \in 1..Len(yielded) :
         /\ DeclaresTooMuch(yielded[i].before)
         /\ yielded[i].item = Some(Ok(ChunkTrack(TrackCut)))
         /\ yielded[i].after = <<>>

\* C9: once ChunkIter::next has returned an error the cursor is at end-of-input
\* and every later call returns end-of-sequence, whatever bytes followed the
\* faulty chunk; a strict TrackIter whose chunk read fails yields one error and
\* after it only end-of-sequence.
C9_FailFast ==
    /\ pc = "chunks" =>
         \A i \in 1..Len(yielded) :
           yielded[i].item.some /\ ~yielded[i].item.v.ok =>
             /\ yielded[i].after = <<>>
             /\ \A j \in (i + 1)..Len(yielded) :
                  yielded[j].item = None /\ yielded[j].after = <<>>
    /\ pc = "tracks" /\ strict =>
         \A i \in 1..Len(yielded) :
           LET c == ChunkIterNext(yielded[i].before).item
           IN c.some /\ ~c.v.ok =>
                /\ yielded[i].item = Some(Err("Malformed"))
                /\ \A j \in (i + 1)..Len(yielded) : yielded[j].item = None

\* A header chunk too short to decode was followed by a complete track chunk: the
\* ChunkIter returned the error, and the next call returned end-of-sequence.
C9_Witness ==
    /\ pc = "chunks"
    /\ \E i \in 1..(Len(yielded) - 1) :
         /\ Len(pieces) > i
         /\ pieces[i] = BadHeaderPart /\ pieces[i + 1] = TrackPart(TrackA)
         /\ yielded[i].item = Some(Err("Invalid"))
         /\ Len(yielded[i].before) > 10
         /\ yielded[i + 1].item = None

(***************************************************************************)
(* SpecEvents: one track's bytes, decoded by EventIter::collect, by        *)
(* EventBytemapIter::collect, or pulled event by event from either         *)
(* iterator, on past the end.                                              *)
(***************************************************************************)
MaxEvents == 3

Ev(delta, status, data) == [delta |-> delta, status |-> status, data |-> data]

\* A one-data-byte message twice on one channel (the second written with running
\* status), one on another channel, and a two-data-byte message after a delta time
\* of two bytes.
EventMenu ==
    {Ev(0, 192, <<5>>), Ev(0, 192, <<6>>), Ev(0, 193, <<7>>), Ev(200, 144, <<60, 100>>)}

\* What follows the events: nothing, a delta time alone, a status byte without its
\* data, a status the codec rejects, a delta time cut off, a data byte where a
\* status may be needed, and a message cut off before its second data byte; and
\* two of these with a well-formed event after them.
JunkMenu ==
    {<<>>, <<0>>, <<0, 192>>, <<0, 240, 1>>, <<129>>, <<0, 5>>, <<0, 144, 60>>,
     <<0, 240, 1, 0, 192, 5>>, <<0, 5, 0, 192, 5>>}

EventTracks ==
    {[events |-> es, junk |-> j] : es \in SeqsUpTo(EventMenu, MaxEvents), j \in JunkMenu}

InitEvents ==
    /\ strict \in BOOLEAN
    /\ parallel = FALSE
    /\ pieces \in EventTracks
    /\ track_chunk = <<>>
    /\ raw = WriteEvents(pieces.events, None, <<>>) \o pieces.junk
    /\ pc = "start"
    /\ iter = Some(EventIterNew(raw))
    /\ chunks = <<>> /\ track_count_hint = 0 /\ header = None /\ chunk_vec = <<>>
    /\ workers = <<>> /\ tracks = None /\ result = None /\ smf = None /\ out = <<>>
    /\ yielded = <<>>

\* EventIter::collect on the fresh iterator.
CallCollect ==
    /\ pc = "start"
    /\ pc' = "collected"
    /\ result' = Some(EventIterCollect(iter.v))
    /\ UNCHANGED <<strict, parallel, raw, chunks, track_count_hint, header, chunk_vec,
                   workers, tracks, smf, out, iter, yielded, pieces, track_chunk>>

\* events.bytemapped().collect() on the fresh iterator.
CallBytemapCollect ==
    /\ pc = "start"
    /\ pc' = "bytemapped"
    /\ result' = Some(BytemapCollect(iter.v))
    /\ UNCHANGED <<strict, parallel, raw, chunks, track_count_hint, header, chunk_vec,
                   workers, tracks, smf, out, iter, yielded, pieces, track_chunk>>

\* One call of EventIter::next.
PullEvent ==
    /\ pc \in {"start", "lazy"}
    /\ Len(yielded) < MaxPulls
    /\ pc' = "lazy"
    /\ LET Pulled(n) == iter' = Some(n.iter) /\ yielded' = Append(yielded, n.item)
       IN Pulled(EventIterNext(iter.v))
    /\ UNCHANGED <<strict, parallel, raw, chunks, track_count_hint, header, chunk_vec,
                   workers, tracks, result, smf, out, pieces, track_chunk>>

\* One call of EventBytemapIter::next.
PullBytemapped ==
    /\ pc \in {"start", "lazy_bytemapped"}
    /\ Len(yielded) < MaxPulls
    /\ pc' = "lazy_bytemapped"
    /\ LET Pulled(n) == iter' = Some(n.iter) /\ yielded' = Append(yielded, n.item)
       IN Pulled(BytemapNext(iter.v))
    /\ UNCHANGED <<strict, parallel, raw, chunks, track_count_hint, header, chunk_vec,
                   workers, tracks, result, smf, out, pieces, track_chunk>>

NextEvents == CallCollect \/ CallBytemapCollect \/ PullEvent \/ PullBytemapped

SpecEvents == InitEvents /\ [][NextEvents]_vars

\* The running status the codec holds after these events.
StatusAfter(events) ==
    IF Len(events) = 0 THEN None ELSE Some(events[Len(events)].status)

\* The codec fails on what follows the events of the track.
CodecFails(t) == t.junk # <<>> /\ ~EventRead(t.junk, StatusAfter(t.events)).ok

\* Each event with the bytes it was written as.
RECURSIVE Bytemapped(_, _)
Bytemapped(events, rs) ==
    IF Len(events) = 0 THEN <<>>
    ELSE << [bytes |-> EventWrite(Head(events), rs).bytes, ev |-> Head(events)] >>
           \o Bytemapped(Tail(events), Some(Head(events).status))

\* What the i-th call of next returns on a track of these k items followed by bytes
\* the codec fails on.
LazyItem(items, i) ==
    IF i <= Len(items) THEN Some(Ok(items[i]))
    ELSE IF i = Len(items) + 1 /\ strict THEN Some(Err("Malformed"))
    ELSE None

\* C6: on a track of k well-formed events followed by bytes on which the codec
\* fails, the lenient collect and bytemapped collect return exactly the k events
\* (with their bytes) and no error, and the strict ones return a Malformed error;
\* the lazy iterators yield the k events, then end under the lenient policy or
\* yield one Malformed error under the strict one, and the rest of the track is
\* dropped.
C6_LenientTruncation ==
    CodecFails(pieces) =>
      /\ pc = "collected" =>
           result.v = IF strict THEN Err("Malformed") ELSE Ok(pieces.events)
      /\ pc = "bytemapped" =>
           result.v = IF strict THEN Err("Malformed") ELSE Ok(Bytemapped(pieces.events, None))
      /\ pc = "lazy" =>
           /\ \A i \in 1..Len(yielded) : yielded[i] = LazyItem(pieces.events, i)
           /\ Len(yielded) > Len(pieces.events) => iter.v.raw = <<>>
      /\ pc = "lazy_bytemapped" =>
           /\ \A i \in 1..Len(yielded) :
                yielded[i] = LazyItem(Bytemapped(pieces.events, None), i)
           /\ Len(yielded) > Len(pieces.events) => iter.v.raw = <<>>

\* The lenient collect has returned the two events of a track whose third event is
\* cut off before its second data byte.
C6_Witness ==
    /\ ~strict /\ pc = "collected"
    /\ Len(pieces.events) = 2 /\ pieces.junk = <<0, 144, 60>>
    /\ CodecFails(pieces)
    /\ result.v = Ok(pieces.events)

(***************************************************************************)
(* SpecWrite: write on a container, track by track, then Smf::parse on the *)
(* bytes written.                                                          *)
(***************************************************************************)
MaxTracks == 2

WriteHeaders ==
    {[format |-> f, timing |-> t] :
       f \in {"SingleTrack", "Parallel", "Sequential"},
       t \in {[kind |-> "Metrical", a |-> 96, b |-> 0], [kind |-> "Timecode", a |-> 24, b |-> 4]}}

\* An empty track, a track whose second event is written with running status, a
\* track that starts on another channel, and a track with a two-byte delta time.
TrackMenu ==
    {<<>>,
     <<Ev(0, 192, <<5>>), Ev(0, 192, <<6>>)>>,
     <<Ev(0, 193, <<7>>)>>,
     <<Ev(200, 144, <<60, 100>>), Ev(1, 192, <<5>>)>>}

\* The tracks handed to write are kept as runs: times equal tracks in a row.
Repeat(track, times) == [track |-> track, times |-> times]

\* tracks.len()
RECURSIVE TrackCount(_)
TrackCount(ts) == IF Len(ts) = 0 THEN 0 ELSE Head(ts).times + TrackCount(Tail(ts))

\* The iterator after its first track is taken.
AfterFirst(ts) ==
    IF Head(ts).times > 1 THEN << Repeat(Head(ts).track, Head(ts).times - 1) >> \o Tail(ts)
    ELSE Tail(ts)

\* The tracks one by one.
RECURSIVE Tracks(_)
Tracks(ts) == IF Len(ts) = 0 THEN <<>> ELSE << Head(ts).track >> \o Tracks(AfterFirst(ts))

\* One track more than a 16-bit count holds, all empty.
TooManyTracks == << Repeat(<<>>, 65536) >>

Containers ==
    {[header |-> h, tracks |-> ts] :
       h \in WriteHeaders,
       ts \in {[i \in DOMAIN q |-> Repeat(q[i], 1)] : q \in SeqsUpTo(TrackMenu, MaxTracks)}
               \cup {TooManyTracks}}

InitWrite ==
    /\ strict \in BOOLEAN
    /\ parallel \in BOOLEAN
    /\ smf \in {Some(c) : c \in Containers}
    /\ pc = "write_header"
    /\ tracks = smf.v.tracks
    /\ raw = <<>> /\ pieces = <<>> /\ track_chunk = <<>>
    /\ chunks = <<>> /\ track_count_hint = 0 /\ header = None /\ chunk_vec = <<>>
    /\ workers = <<>> /\ result = None /\ out = <<>> /\ iter = None /\ yielded = <<>>

\* Chunk::write_header(header, tracks.len(), out)?
WriteHeaderStep ==
    /\ pc = "write_header"
    /\ LET Wrote(w) ==
              IF w.ok THEN /\ out' = out \o w.val /\ pc' = "write_tracks" /\ result' = result
              ELSE /\ out' = out /\ pc' = "failed" /\ result' = Some(Err(w.err))
       IN Wrote(WriteHeader(smf.v.header, TrackCount(tracks)))
    /\ UNCHANGED <<strict, parallel, raw, chunks, track_count_hint, header, chunk_vec,
                   workers, tracks, smf, iter, yielded, pieces, track_chunk>>

\* One round of the loop of write: the track is written into the buffer, the
\* buffer is written out and cleared.
WriteTrackStep ==
    /\ pc = "write_tracks"
    /\ tracks # <<>>
    /\ LET Wrote(w) ==
              IF w.ok THEN /\ out' = out \o w.val /\ track_chunk' = TrackChunkClear(w.val)
                           /\ tracks' = AfterFirst(tracks) /\ pc' = pc /\ result' = result
              ELSE /\ out' = out /\ track_chunk' = track_chunk
                   /\ tracks' = tracks /\ pc' = "failed" /\ result' = Some(Err(w.err))
       IN Wrote(WriteTrack(Head(tracks).track, track_chunk))
    /\ UNCHANGED <<strict, parallel, raw, chunks, track_count_hint, header, chunk_vec,
                   workers, smf, iter, yielded, pieces>>

\* The loop has written every track: write returns Ok(()).
WriteDone ==
    /\ pc = "write_tracks"
    /\ tracks = <<>>
    /\ pc' = "written"
    /\ UNCHANGED <<strict, parallel, raw, chunks, track_count_hint, header, chunk_vec,
                   workers, tracks, result, smf, out, iter, yielded, pieces, track_chunk>>

\* Smf::parse on the bytes written.
ParseWritten ==
    /\ pc = "written"
    /\ pc' = "parsed"
    /\ result' = Some(SmfParse(out))
    /\ UNCHANGED <<strict, parallel, raw, chunks, track_count_hint, header, chunk_vec,
                   workers, tracks, smf, out, iter, yielded, pieces, track_chunk>>

NextWrite == WriteHeaderStep \/ WriteTrackStep \/ WriteDone \/ ParseWritten

SpecWrite == InitWrite /\ [][NextWrite]_vars

\* A container write accepts and a strict parse does not reject: at most 65535
\* tracks and, under the strict policy, exactly one track when the format is
\* SingleTrack.
ValidContainer(c) ==
    /\ TrackCount(c.tracks) <= 65535
    /\ strict /\ c.header.format = "SingleTrack" => TrackCount(c.tracks) = 1

\* C1: write on a valid container never fails, and Smf::parse on the bytes it
\* wrote returns that container: the same header, the same number of tracks, the
\* same events in the same order, empty tracks and the container of no tracks
\* included.
C1_RoundTrip ==
    ValidContainer(smf.v) =>
      /\ pc # "failed"
      /\ pc = "parsed" => result.v = Ok([header |-> smf.v.header, tracks |-> Tracks(smf.v.tracks)])

\* Written and parsed back: a container whose first track is empty and whose
\* second holds an event written with running status.
C1_Witness ==
    /\ pc = "parsed"
    /\ ValidContainer(smf.v)
    /\ Len(smf.v.tracks) = 2
    /\ smf.v.tracks[1].track = <<>> /\ Len(smf.v.tracks[2].track) = 2
    /\ Len(out) = 14 + 8 + 8 + 5
    /\ result.v.ok /\ result.v.val.tracks = << <<>>, smf.v.tracks[2].track >>

(***************************************************************************)
(* Further properties of Smf::parse and SmfBytemap::parse (Spec)           *)
(***************************************************************************)
\* The first part that is not a complete chunk of an unknown id, 0 if there is none.
RECURSIVE FirstKnown(_, _)
FirstKnown(ps, k) ==
    IF k > Len(ps) THEN 0
    ELSE IF IsUnknownPart(ps[k]) THEN FirstKnown(ps, k + 1)
    ELSE k

\* C11 as stated: a parse succeeds only on a file whose first chunk is the MThd
\* header chunk; any other chunk before it, of an unknown id too, is rejected.
C11_AsStated ==
    pc # "start" /\ result.v.ok => Len(pieces) >= 1 /\ IsHeaderPart(pieces[1])

\* C11: a parse succeeds only on a file in which the first chunk of a known id is
\* the MThd header chunk, complete chunks of unknown ids before it being skipped;
\* when a track chunk comes before any header chunk the parse returns an Invalid
\* error.
C11_HeaderFirst ==
    pc # "start" =>
      /\ header.v.ok => /\ FirstKnown(pieces, 1) > 0
                        /\ IsHeaderPart(pieces[FirstKnown(pieces, 1)])
      /\ header.v.ok <=> result.v.ok \/ result.v.err = "Malformed"
      /\ FirstKnown(pieces, 1) > 0 /\ pieces[FirstKnown(pieces, 1)].id = MTrk =>
           result.v = Err("Invalid")

\* A file of an unknown chunk, the header chunk and a track chunk was parsed into a
\* container of one track.
C11_Witness ==
    /\ pc = "parsed"
    /\ Len(pieces) >= 3
    /\ IsUnknownPart(pieces[1]) /\ IsHeaderPart(pieces[2]) /\ IsTrackPart(pieces[3])
    /\ result.v.ok /\ Len(result.v.val.tracks) >= 1

\* A part after the header that a strict decode must not pass: a chunk declaring
\* more bytes than it has, another header chunk, a track with an event that fails.
Fault(p) ==
    \/ p.kind = "chunk" /\ p.len > Len(p.data)
    \/ IsHeaderPart(p)
    \/ IsTrackPart(p) /\ ~EventCollectLoop(Collecting(EventIterNew(p.data))).iter.raw = <<>>

FaultAfterHeader(ps) ==
    /\ FirstKnown(ps, 1) > 0
    /\ IsHeaderPart(ps[FirstKnown(ps, 1)])
    /\ \E k \in (FirstKnown(ps, 1) + 1)..Len(ps) : Fault(ps[k])

\* C12: under the strict policy, when the bytes after the header hold a truncated
\* chunk, a second header chunk or a track with an event that fails to decode,
\* Smf::parse and SmfBytemap::parse return an error, on the sequential and on the
\* parallel path, and nothing decoded before the fault comes back with it.
C12_NoPartialContainer ==
    pc # "start" /\ strict /\ FaultAfterHeader(pieces) =>
      /\ ~result.v.ok
      /\ result.v = Err("Malformed")

\* The strict parallel path met a well-formed track and then one whose first event
\* has no status byte: Smf::parse returned an error.
C12_Witness ==
    /\ pc = "parsed" /\ strict
    /\ Len(pieces) >= 4
    /\ parallel /\ pieces[2] = PadPart
    /\ pieces[3] = TrackPart(TrackA) /\ pieces[4] = TrackPart(TrackNoStatus)
    /\ FaultAfterHeader(pieces)
    /\ ~result.v.ok

(***************************************************************************)
(* Further properties of write (SpecWrite)                                 *)
(***************************************************************************)
\* The events of one track as the codec writes them, from running status None.
Payload(track) == WriteEvents(track, None, <<>>)

\* One MTrk chunk per track, in order, each with the length of its own payload.
RECURSIVE TrackChunks(_)
TrackChunks(ts) ==
    IF Len(ts) = 0 THEN <<>>
    ELSE MTrk \o U32BE(Len(Payload(Head(ts)))) \o Payload(Head(ts)) \o TrackChunks(Tail(ts))

\* The tracks write has written so far.
Written == SubSeq(Tracks(smf.v.tracks), 1, TrackCount(smf.v.tracks) - TrackCount(tracks))

\* C13: what write has put into the sink is, once the header is written, one MThd
\* chunk of 6 bytes whose track-count field is the number of tracks of the
\* container, followed by one MTrk chunk for each track written so far, in the
\* container's order, each with a length field equal to the length of its own
\* payload; at the end there are exactly as many MTrk chunks as tracks; and the
\* scratch buffer is empty whenever a track is about to be written.
C13_OutputStructure ==
    /\ pc = "write_header" => out = <<>>
    /\ pc \in {"write_tracks", "written", "parsed"} =>
         /\ Take(out, 14) = MThd \o U32BE(6) \o HeaderEncode(smf.v.header, TrackCount(smf.v.tracks))
         /\ SubSeq(out, 11, 12) = U16BE(TrackCount(smf.v.tracks))
         /\ Drop(out, 14) = TrackChunks(Written)
    /\ pc \in {"written", "parsed"} => Written = Tracks(smf.v.tracks)
    /\ pc = "write_tracks" => track_chunk = <<>>

\* write has finished a container of two different tracks with events.
C13_Witness ==
    /\ pc = "written"
    /\ Len(smf.v.tracks) = 2
    /\ smf.v.tracks[1].track # <<>> /\ smf.v.tracks[2].track # <<>>
    /\ smf.v.tracks[1].track # smf.v.tracks[2].track
    /\ Drop(out, 14) = TrackChunks(Tracks(smf.v.tracks))

\* C14: write called with more than 65535 tracks returns an InvalidInput error and
\* the sink holds no byte, neither of the header nor of a track, at any moment of
\* the call; write fails in no other case.
C14_TrackCountOverflow ==
    /\ TrackCount(smf.v.tracks) > 65535 =>
         /\ out = <<>>
         /\ pc \in {"write_header", "failed"}
         /\ pc = "failed" => result.v = Err("InvalidInput")
    /\ pc = "failed" => TrackCount(smf.v.tracks) > 65535

\* write has returned the error on a container of 65536 tracks.
C14_Witness ==
    /\ pc = "failed"
    /\ TrackCount(smf.v.tracks) = 65536
    /\ result.v = Err("InvalidInput")
    /\ out = <<>>

(***************************************************************************)
(* Further properties of generic_collect (SpecCollect)                     *)
(***************************************************************************)
\* The bytes of the payloads of the track chunks after the header.
RECURSIVE TrackBytes(_)
TrackBytes(ps) ==
    IF Len(ps) = 0 THEN 0
    ELSE (IF Head(ps).id = MTrk /\ Head(ps).kind = "zeros" THEN Head(ps).len
          ELSE IF Head(ps).id = MTrk /\ Head(ps).kind = "chunk" THEN Len(Head(ps).data)
          ELSE 0)
         + TrackBytes(Tail(ps))

\* All bytes after the header chunk: prefixes, unknown chunks and stray bytes too.
UnreadBytes(ps) == Len(FileBytes(Tail(ps)))

\* The run has gone through the sequential loop / through the capture and fork.
WentSequential == pc = "sequential" \/ tracks # <<>>
WentParallel == pc = "fork" \/ chunk_vec # <<>>

\* C15 as stated: generic_collect decodes sequentially when the payloads of the
\* track chunks sum to less than 4096 bytes, and in parallel when they sum to 4096
\* bytes or more.
C15_AsStated ==
    /\ WentSequential => TrackBytes(Tail(pieces)) < PARALLEL_ENABLE_THRESHOLD
    /\ WentParallel => TrackBytes(Tail(pieces)) >= PARALLEL_ENABLE_THRESHOLD

\* C15: with parallel decode enabled, generic_collect decodes sequentially when
\* fewer than 4096 bytes of the input are unread after the header chunk, and takes
\* the parallel path when 4096 or more are: all unread bytes count, the 8-byte
\* prefixes, the chunks of unknown id and bytes that form no chunk as well as the
\* track payloads.
C15_Threshold ==
    /\ WentSequential => UnreadBytes(pieces) < PARALLEL_ENABLE_THRESHOLD
    /\ WentParallel => UnreadBytes(pieces) >= PARALLEL_ENABLE_THRESHOLD
    /\ pc = "done" /\ result.v.ok /\ result.v.val # <<>> => WentSequential \/ WentParallel

\* The parallel path was taken on exactly 4096 unread bytes, 5 of them track
\* payload.
C15_Witness ==
    /\ pc = "fork"
    /\ UnreadBytes(pieces) = PARALLEL_ENABLE_THRESHOLD
    /\ TrackBytes(Tail(pieces)) = 5
    /\ Len(workers) = 1

(***************************************************************************)
(* Further properties of EventIter and EventBytemapIter (SpecEvents)       *)
(***************************************************************************)
Lazy == pc \in {"lazy", "lazy_bytemapped"}

\* C16: when the lazy iterator (EventIter::next or EventBytemapIter::next) comes
\* to bytes on which the codec fails after k events, the next item is one
\* Malformed error under the strict policy and end-of-sequence under the lenient
\* one, every later item is end-of-sequence, and no event beyond the k-th is ever
\* yielded, whatever bytes follow the failure; an end-of-sequence or an error is
\* never followed by anything but end-of-sequence.
C16_LazyTerminal ==
    Lazy =>
      /\ \A i \in 1..Len(yielded) :
           ~(yielded[i].some /\ yielded[i].v.ok) =>
             /\ iter.v.raw = <<>>
             /\ \A j \in (i + 1)..Len(yielded) : yielded[j] = None
      /\ CodecFails(pieces) =>
           \A i \in 1..Len(yielded) :
             /\ i = Len(pieces.events) + 1 =>
                  yielded[i] = IF strict THEN Some(Err("Malformed")) ELSE None
             /\ i > Len(pieces.events) + 1 => yielded[i] = None
             /\ yielded[i].some /\ yielded[i].v.ok => i <= Len(pieces.events)

\* The strict iterator failed on a status byte the codec rejects, with a well-formed
\* event after it, yielded the error and was pulled twice more.
C16_Witness ==
    /\ pc = "lazy" /\ strict
    /\ pieces.junk = <<0, 240, 1, 0, 192, 5>>
    /\ Len(pieces.events) = 1
    /\ Len(yielded) = 4
    /\ yielded[2] = Some(Err("Malformed"))
    /\ yielded[3] = None /\ yielded[4] = None

\* The lazy form drained: next called until it yields end-of-sequence, the events
\* gathered, and whether an error item came.
RECURSIVE Drain(_, _, _)
Drain(it, events, failed) ==
    LET Got(n) ==
          IF ~n.item.some THEN [events |-> events, failed |-> failed]
          ELSE IF n.item.v.ok THEN Drain(n.iter, Append(events, n.item.v.val), failed)
          ELSE Drain(n.iter, events, TRUE)
    IN Got(EventIterNext(it))

\* C17: on the same span, EventIter::collect returns the events that repeated
\* calls of EventIter::next yield, in the same order; under the strict policy it
\* returns an error exactly when next yields an error item.  Stated both ways: of
\* what collect returned against the drained iterator, and of what next has
\* yielded so far against collect.
C17_EagerEqualsLazy ==
    /\ pc = "collected" =>
         LET Same(d) ==
               /\ result.v.ok <=> ~d.failed
               /\ result.v.ok => result.v.val = d.events
               /\ ~strict => result.v.ok
         IN Same(Drain(EventIterNew(raw), <<>>, FALSE))
    /\ pc = "lazy" =>
         LET Same(e) ==
               \A i \in 1..Len(yielded) :
                 /\ yielded[i].some /\ ~yielded[i].v.ok => ~e.ok
                 /\ e.ok => yielded[i] = IF i <= Len(e.val) THEN Some(Ok(e.val[i])) ELSE None
                 /\ ~e.ok /\ ~yielded[i].some =>
                      \E j \in 1..(i - 1) : yielded[j].some /\ ~yielded[j].v.ok
         IN Same(EventIterCollect(EventIterNew(raw)))

\* The lenient iterator has yielded the two events before a failure and then
\* end-of-sequence: the events collect returns on the same bytes.
C17_Witness ==
    /\ pc = "lazy" /\ ~strict
    /\ CodecFails(pieces) /\ Len(pieces.events) = 2
    /\ Len(yielded) = 3
    /\ yielded[3] = None
    /\ EventIterCollect(EventIterNew(raw)) = Ok(<<yielded[1].v.val, yielded[2].v.val>>)

\* The spans of bytemapped items joined, and their events.
RECURSIVE Joined(_)
Joined(items) == IF Len(items) = 0 THEN <<>> ELSE Head(items).bytes \o Joined(Tail(items))

EventsOf(items) == [i \in 1..Len(items) |-> items[i].ev]

\* Each span, read by the codec alone with the running status its predecessor
\* left, gives its event and is used up by it.
RECURSIVE SpansExact(_, _)
SpansExact(items, rs) ==
    LET One(r) ==
          /\ r.ok /\ r.ev = Head(items).ev /\ r.raw = <<>>
          /\ SpansExact(Tail(items), r.rs)
    IN Len(items) = 0 \/ (Head(items).bytes # <<>> /\ One(EventRead(Head(items).bytes, rs)))

\* The bytemapped items tile a prefix of the track.
Tiles(items) ==
    /\ Joined(items) = Take(raw, Len(Joined(items)))
    /\ SpansExact(items, None)

\* The items the lazy bytemapped iterator has yielded that are events.
YieldedPairs == SelectSeq(yielded, LAMBDA y : y.some /\ y.v.ok)

\* C18: the items of a bytemapped decode carry the events of the eager decode of
\* the same bytes, and their spans, in order, are each the bytes its event
\* consumed and together the prefix of the track that the decoded events take
\* up: the whole track when every event decodes.
C18_BytemapTiles ==
    /\ pc = "bytemapped" =>
         /\ result.v.ok <=> EventIterCollect(EventIterNew(raw)).ok
         /\ result.v.ok =>
              /\ EventsOf(result.v.val) = EventIterCollect(EventIterNew(raw)).val
              /\ Tiles(result.v.val)
              /\ Len(result.v.val) = Len(pieces.events) /\ pieces.junk = <<>> =>
                   Joined(result.v.val) = raw
    /\ pc = "lazy_bytemapped" =>
         LET Pairs(ys) ==
               /\ Tiles(ys)
               /\ Len(ys) = Len(yielded) => iter.v.raw = Drop(raw, Len(Joined(ys)))
               /\ \A i \in 1..Len(ys) : yielded[i] = Some(Ok(ys[i]))
               /\ ~strict =>
                    \A i \in 1..Len(ys) :
                      ys[i].ev = EventIterCollect(EventIterNew(raw)).val[i]
         IN Pairs([i \in 1..Len(YieldedPairs) |-> YieldedPairs[i].v.val])

\* Bytemapped collect on a track of three events, the second written with running
\* status in two bytes: three spans that make up the whole track.
C18_Witness ==
    /\ pc = "bytemapped" /\ result.v.ok
    /\ pieces.junk = <<>> /\ Len(result.v.val) = 3
    /\ Len(result.v.val[1].bytes) = 3 /\ Len(result.v.val[2].bytes) = 2
    /\ Joined(result.v.val) = raw

\* C19: under the lenient policy, once the first chunk the framer returns decodes
\* as a header, Smf::parse and SmfBytemap::parse return a container whatever
\* follows: truncated chunks, prefixes that cannot be read, further header chunks
\* that decode or do not, tracks with events that fail, a declared count or a
\* format that the tracks do not match.
C19_LenientTotal ==
    pc # "start" /\ ~strict /\ header.v.ok =>
      /\ result.v.ok
      /\ result.v.val.header = header.v.val.header
      /\ tracks.v.ok /\ result.v.val.tracks = tracks.v.val

\* The lenient SmfBytemap::parse returned a container for a file whose header
\* declares a count the tracks do not match and whose rest holds a track with a
\* failing event and ends in a header chunk too short to decode.
C19_Witness ==
    /\ pc = "bytemapped" /\ ~strict
    /\ Len(pieces) >= 3
    /\ IsHeaderPart(pieces[1])
    /\ pieces[Len(pieces)] = BadHeaderPart
    /\ \E k \in 2..(Len(pieces) - 1) : pieces[k] = TrackPart(TrackNoStatus)
    /\ result.v.ok
    /\ Len(result.v.val.tracks) # Declared(pieces)

(***************************************************************************)
(* Further properties of ChunkIter and TrackIter (SpecChunks)              *)
(***************************************************************************)
Consumed(r) == Len(r.before) - Len(r.after)

\* C20: every call of ChunkIter::next or TrackIter::next on a non-empty buffer
\* leaves fewer bytes than it found: an item that is a chunk or a track has taken
\* at least 8 bytes, chunks of zero length and skipped chunks included; an error
\* leaves the buffer empty (or, for the strict TrackIter's duplicate header, has
\* taken at least 8 bytes); end-of-sequence comes only with the buffer empty, and
\* an empty buffer gives end-of-sequence and no error.  So the calls that yield an
\* item number at most one more than an eighth of the input length.
C20_ChunkTermination ==
    /\ \A i \in 1..Len(yielded) :
         LET r == yielded[i] IN
         /\ r.before = <<>> => r.item = None /\ r.after = <<>>
         /\ r.before # <<>> => Len(r.after) < Len(r.before)
         /\ ~r.item.some => r.after = <<>>
         /\ r.item.some /\ r.item.v.ok => Consumed(r) >= 8
         /\ r.item.some /\ ~r.item.v.ok =>
              r.after = <<>> \/ (pc = "tracks" /\ strict /\ Consumed(r) >= 8)
         /\ i > 1 => r.before = yielded[i - 1].after
    /\ Cardinality({i \in 1..Len(yielded) : yielded[i].item.some}) <= Len(raw) \div 8 + 1
    /\ Len(yielded) > Len(raw) \div 8 + 1 => yielded[Len(yielded)].item = None

\* A zero-length unknown chunk was skipped and a zero-length track chunk yielded in
\* one call that took 16 bytes, and a later call gave end-of-sequence.
C20_Witness ==
    /\ Len(yielded) >= 2
    /\ Len(pieces) >= 2
    /\ pieces[1] = ChunkPart(XUnk, 0, <<>>) /\ pieces[2] = TrackPart(<<>>)
    /\ yielded[1].item.some /\ yielded[1].item.v.ok /\ Consumed(yielded[1]) = 16
    /\ yielded[Len(yielded)].item = None

====
